---- MODULE Spec2Model ----
(***************************************************************************)
(* Signal masking of the SMA science tutorials: the 1-D procedure of       *)
(* Tutorial_1b (noise estimate, threshold, spike removal, expansion of the *)
(* high mask into the low mask, dilation), the 3-D procedure of            *)
(* Tutorial_1b and of the line-ratio notebook (noise estimate, threshold,  *)
(* spike removal, region labelling, region filter, re-labelling,           *)
(* dilation), and the cells of the line-ratio notebook that follow the     *)
(* mask (moments, uncertainties, significance, ratio, statistics).         *)
(*                                                                         *)
(* One behaviour is one run of one notebook on one input.  Arrays are      *)
(* functions over index sets; floating-point samples are records that      *)
(* carry NaN explicitly; boolean numpy arrays that the notebook mutates in *)
(* place live in a heap so that two names for one array stay one array.    *)
(*                                                                         *)
(* Spec starts at the mask cells, with the noise estimate (rms_spec,       *)
(* mad_std_map) as an input: what the mad_std calls before them returned,  *)
(* a number that is never negative, or NaN.  SpecNoise and SpecRatio start *)
(* before the mad_std calls and compute the estimate from the samples,     *)
(* which are whole multiples of Unit so that the arithmetic is exact.      *)
(* SpecBlock runs the 3-D procedure on a field with one bright block.      *)
(***************************************************************************)
EXTENDS Integers, Sequences, FiniteSets, TLC

\* ------------------------------------------------------------------ bounds
\* number of channels of the 1-D spectrum
NChan == 6
\* shape of the 3-D cube: spectral axis 0, then y, then x
NC == 5
NY == 2
NX == 2

\* ------------------------------------------------------- floating point
\* A sample is NaN or a number; comparisons with NaN are false (IEEE 754).
NaN == [nan |-> TRUE, v |-> 0]
Num(x) == [nan |-> FALSE, v |-> x]

\* k * s with NaN propagation
Mul(k, s) == IF s.nan THEN NaN ELSE Num(k * s.v)

GtWeak(a, b) == (~a.nan) /\ (~b.nan) /\ a.v >= b.v
GtNanPasses(a, b) == a.nan \/ ((~b.nan) /\ a.v > b.v)
GtFlipped(a, b) == (~a.nan) /\ (~b.nan) /\ a.v < b.v
\* a > b as numpy evaluates it element-wise
Gt(a, b) == (~a.nan) /\ (~b.nan) /\ a.v > b.v

\* ------------------------------------------------------------ 1-D arrays
Chan1 == 0 .. (NChan - 1)

\* np.roll(a, shift) of a 1-D array: element i moves to i + shift, circularly
Roll1NoWrap(a, shift) == [i \in DOMAIN a |-> IF (i - shift) \in DOMAIN a THEN a[i - shift] ELSE 0]
Roll1(a, shift) == [i \in DOMAIN a |-> a[(i - shift) % NChan]]

\* np.array(<boolean>, dtype = int)
AsInt(b) == IF b THEN 1 ELSE 0

high_tresh == 4
low_tresh == 2

\* np.array(spec > k * rms, dtype = int)
Threshold1(spec, k, rms) == [i \in Chan1 |-> AsInt(Gt(spec[i], Mul(k, rms)))]

RemoveSpikes1NoSelf(m) ==
    [i \in Chan1 |-> AsInt(Roll1(m, 1)[i] + Roll1(m, -1)[i] >= 2)]
RemoveSpikes1One(m) ==
    [i \in Chan1 |-> AsInt(m[i] + Roll1(m, 1)[i] + Roll1(m, -1)[i] >= 1)]
RemoveSpikes1Two(m) ==
    [i \in Chan1 |-> AsInt(m[i] + Roll1(m, 1)[i] + Roll1(m, -1)[i] >= 2)]
\* np.array((m + np.roll(m, 1) + np.roll(m, -1)) >= 3, dtype = int)
RemoveSpikes1(m) ==
    [i \in Chan1 |-> AsInt(m[i] + Roll1(m, 1)[i] + Roll1(m, -1)[i] >= 3)]

\* ------------------------------------------------------------ 3-D arrays
Chans == 0 .. (NC - 1)
Cols == (0 .. (NY - 1)) \X (0 .. (NX - 1))
Cells == Chans \X (0 .. (NY - 1)) \X (0 .. (NX - 1))

\* position of a cell in C (raster) order
Raster(p) == (p[1] * NY + p[2]) * NX + p[3]

\* np.roll(a, shift, 0) of a cube: circular shift along the spectral axis
Roll3(a, shift) == [p \in Cells |-> a[<<(p[1] - shift) % NC, p[2], p[3]>>]]

\* (cube > k * mad_std_map).include(): the map is broadcast along the spectral axis
Threshold3(cube, k, sigma) ==
    [p \in Cells |-> Gt(cube[p], Mul(k, sigma[<<p[2], p[3]>>]))]

RemoveSpikes3Either(m) == [p \in Cells |-> m[p] /\ (Roll3(m, 1)[p] \/ Roll3(m, -1)[p])]
\* m & np.roll(m, 1, 0) & np.roll(m, -1, 0)
RemoveSpikes3(m) == [p \in Cells |-> m[p] /\ Roll3(m, 1)[p] /\ Roll3(m, -1)[p]]

\* the form of one procedure on the array of the other:
\* m & np.roll(m, 1) & np.roll(m, -1) on a 1-D array of 0 and 1
RemoveSpikes1Logical(m) ==
    [i \in Chan1 |-> AsInt(m[i] = 1 /\ Roll1(m, 1)[i] = 1 /\ Roll1(m, -1)[i] = 1)]
\* (m + np.roll(m, 1, 0) + np.roll(m, -1, 0)) >= 3 on a 3-D boolean array
RemoveSpikes3Arithmetic(m) ==
    [p \in Cells |-> AsInt(m[p]) + AsInt(Roll3(m, 1)[p]) + AsInt(Roll3(m, -1)[p]) >= 3]

\* --------------------------------------------------- structuring elements
Off == 0 .. 2
Off2 == Off \X Off
Off3 == Off \X Off \X Off

\* np.ones((3, 3, 3), dtype=bool): 26-connectivity
structure_label == [t \in Off3 |-> TRUE]

\* np.ones((3, 3), dtype=bool)
structure_spatial == [t \in Off2 |-> TRUE]

\* np.zeros((3, 3), dtype=bool) with [1, 1] = True
structure_spec == [t \in Off2 |-> t[1] = 1 /\ t[2] = 1]

\* np.dstack(planes): planes[k] becomes result[:, :, k]
Dstack(planes) == [t \in Off3 |-> planes[t[3] + 1][<<t[1], t[2]>>]]

\* np.swapaxes(a, 0, 2)
Swapaxes02(a) == [t \in Off3 |-> a[<<t[3], t[2], t[1]>>]]

structure_full == [t \in Off3 |-> TRUE]
\* the structuring element of the final dilation
structure == Swapaxes02(Dstack(<<structure_spec, structure_spatial, structure_spec>>))

\* ------------------------------------------------------------ scipy.ndimage
\* q - p as an index into a 3x3x3 structuring element, when q is within one of p
InReach(p, q) ==
    /\ q[1] - p[1] \in -1 .. 1
    /\ q[2] - p[2] \in -1 .. 1
    /\ q[3] - p[3] \in -1 .. 1
OffsetOf(p, q) == <<q[1] - p[1] + 1, q[2] - p[2] + 1, q[3] - p[3] + 1>>

\* one iteration of nd.binary_dilation(a, structure=S): cells outside the array count as false
BinaryDilation(a, S) ==
    [p \in Cells |-> \E q \in Cells : InReach(q, p) /\ S[OffsetOf(q, p)] /\ a[q]]

\* the cells of T connected to S under the structuring element
RECURSIVE Grow(_, _, _)
Grow(S, T, st) ==
    LET N == {q \in T \ S : \E p \in S : InReach(p, q) /\ st[OffsetOf(p, q)]}
    IN IF N = {} THEN S ELSE Grow(S \cup N, T, st)

FirstCell(T) == CHOOSE p \in T : \A q \in T : Raster(p) <= Raster(q)

RECURSIVE LabelFrom(_, _, _, _)
LabelFrom(rest, k, lab, st) ==
    IF rest = {} THEN [labels |-> lab, n |-> k]
    ELSE LET comp == Grow({FirstCell(rest)}, rest, st)
         IN LabelFrom(rest \ comp, k + 1,
                      [p \in Cells |-> IF p \in comp THEN k + 1 ELSE lab[p]], st)

\* nd.label(a, structure=st): regions numbered 1.. in raster order of their
\* first cell, 0 for the background; returns the label array and the count
Label(a, st) == LabelFrom({p \in Cells : a[p]}, 0, [p \in Cells |-> 0], st)

LabelSumFromZero(a, labels, n) ==
    [i \in 1 .. n |-> Cardinality({p \in Cells : labels[p] = i - 1 /\ a[p]})]
\* nd.sum(a, labels=labels, index=range(1, n + 1))
LabelSum(a, labels, n) ==
    [i \in 1 .. n |-> Cardinality({p \in Cells : labels[p] = i /\ a[p]})]

\* ------------------------------------------------------ 1-D binary dilation
\* The array a function expression denotes, computed once: TLC otherwise
\* computes an element anew at every use, and a chain of array operations
\* costs a product instead of a sum.
Array(f) == f @@ f

Sum1AnySet(m) == AsInt(\E i \in DOMAIN m : m[i] = 1)
\* the number of set channels: np.nansum(mask) of a 0/1 array
Sum1(m) == Cardinality({i \in DOMAIN m : m[i] = 1})

BinaryDilation1BorderTrue(m) ==
    Array([i \in DOMAIN m |->
              AsInt(\E j \in (i - 1) .. (i + 1) : j \notin DOMAIN m \/ m[j] = 1)])
\* one pass of ndimage.binary_dilation(m) with the default structure (a channel
\* and its two neighbours); channels outside the array count as false
BinaryDilation1(m) ==
    Array([i \in DOMAIN m |->
              AsInt(\E j \in DOMAIN m : j - i \in -1 .. 1 /\ m[j] = 1)])

\* n passes, one after the other
RECURSIVE Repeat1(_, _)
Repeat1(m, n) == IF n <= 0 THEN m ELSE Repeat1(BinaryDilation1(m), n - 1)

\* passes until the result does not change anymore
RECURSIVE UntilStable1(_)
UntilStable1(m) ==
    IF BinaryDilation1(m) = m THEN m ELSE UntilStable1(BinaryDilation1(m))

BinaryDilationIterStableBelowTwo(m, iterations) ==
    IF iterations < 2 THEN UntilStable1(m) ELSE Repeat1(m, iterations)
\* ndimage.binary_dilation(m, iterations=n): n passes; with n < 1 the dilation
\* is repeated until the result does not change anymore
BinaryDilationIter(m, iterations) ==
    IF iterations < 1 THEN UntilStable1(m) ELSE Repeat1(m, iterations)

\* ndimage.binary_dilation(mask).astype(mask.dtype) * low_mask
DilateIntoUnmasked(m, low) == BinaryDilation1(m)
DilateIntoShifted(m, low) ==
    Array([i \in DOMAIN m |-> AsInt(i - 1 \in DOMAIN m /\ m[i - 1] = 1 /\ low[i] = 1)])
DilateIntoOneSided(m, low) ==
    Array([i \in DOMAIN m |->
              AsInt((m[i] = 1 \/ (i - 1 \in DOMAIN m /\ m[i - 1] = 1)) /\ low[i] = 1)])
DilateInto(m, low) ==
    LET grown == BinaryDilation1(m)
    IN Array([i \in DOMAIN m |-> grown[i] * low[i]])

\* the while loop of the expansion cell, from the value n of n_chan
RECURSIVE ExpandLoop(_, _, _)
ExpandLoop(n, m, low) ==
    IF n # Sum1(m) THEN ExpandLoop(Sum1(m), DilateInto(m, low), low) ELSE m

\* the number of turns that loop takes
RECURSIVE ExpandTurns(_, _, _)
ExpandTurns(n, m, low) ==
    IF n # Sum1(m) THEN 1 + ExpandTurns(Sum1(m), DilateInto(m, low), low) ELSE 0

\* ------------------------------------------------------------ noise estimate
\* a < b as numpy evaluates it
Lt(a, b) == Gt(b, a)

Abs(x) == IF x < 0 THEN 0 - x ELSE x

\* the k-th smallest, k = 1 .. , of the numbers g[i] with i in K
KthSmallest(g, K, k) ==
    CHOOSE x \in {g[i] : i \in K} :
        /\ Cardinality({i \in K : g[i] < x}) < k
        /\ k <= Cardinality({i \in K : g[i] <= x})

\* np.median of the numbers g[i] with i in K, K not empty: the middle one, or
\* the mean of the two middle ones
Median(g, K) ==
    LET n == Cardinality(K)
    IN IF n % 2 = 1
       THEN KthSmallest(g, K, (n + 1) \div 2)
       ELSE (KthSmallest(g, K, n \div 2) + KthSmallest(g, K, n \div 2 + 1)) \div 2

\* mad_std scales the median absolute deviation by 1.4826 = 7413 / 5000
\* (astropy's factor is 1.482602...: no comparison of the model is that close)
MadScaleNum == 7413
MadScaleDen == 5000
\* Samples of a spectrum whose noise is estimated are whole multiples of Unit:
\* then both medians and the scaling are exact in integers.
Unit == 4 * MadScaleDen

MadStdEmptyIsZero(g, K) ==
    IF K = {} THEN Num(0)
    ELSE LET med == Median(g, K)
             dev == [i \in K |-> Abs(g[i] - med)]
         IN Num((Median(dev, K) \div MadScaleDen) * MadScaleNum)
\* 1.4826 * median(|g - median(g)|) over the samples i in K; the median of no
\* sample is NaN (numpy warns, it does not raise)
MadStdOf(g, K) ==
    IF K = {} THEN NaN
    ELSE LET med == Median(g, K)
             dev == [i \in K |-> Abs(g[i] - med)]
         IN Num((Median(dev, K) \div MadScaleDen) * MadScaleNum)

\* astropy.stats.mad_std(a[K]): ignore_nan is False, one NaN makes the result NaN
MadStd(a, K) ==
    IF \E i \in K : a[i].nan THEN NaN
    ELSE MadStdOf([i \in K |-> a[i].v], K)

ClipKeepsTwoSided(x, sigma) ==
    (~x.nan) /\ (~sigma.nan) /\ Abs(x.v) < 3 * sigma.v
\* x < 3 * sigma: the samples the second pass of the estimate keeps
ClipKeeps(x, sigma) == Lt(x, Mul(3, sigma))

\* cube.with_mask(keep).mad_std(axis=0): per line of sight, over the samples
\* that are in the mask and not NaN
MadStdMap(a, keep) ==
    [xy \in Cols |->
        LET K == {c \in Chans : keep[<<c, xy[1], xy[2]>>] /\ ~a[<<c, xy[1], xy[2]>>].nan}
        IN MadStdOf([c \in K |-> a[<<c, xy[1], xy[2]>>].v], K)]

\* the mask  a < 3 * sigma  of the second pass, sigma broadcast along the spectrum
ClipMask(a, sigma) == [p \in Cells |-> ClipKeeps(a[p], sigma[<<p[2], p[3]>>])]

\* -------------------------------------------------------------- inputs
\* sample values of the 1-D spectrum: below, at and above both thresholds
Vals1 == {NaN, Num(0), Num(2), Num(4), Num(5)}
\* the noise estimate handed to the mask stages: never negative, or NaN
RmsVals == {NaN, Num(0), Num(1)}

\* (low, high) S/N multipliers of the two 3-D notebooks
SnrThresholds == {<<2, 4>>, <<3, 6>>}

tutorial_high_min_pixels == 10
tutorial_low_min_pixels == 20
\* (high_min_pixels, low_min_pixels): the notebooks' values, which they tell
\* the reader to adapt to the beam, and a pair small enough for small regions
MinPixels == {<<tutorial_high_min_pixels, tutorial_low_min_pixels>>, <<2, 3>>}

tutorial_n_iter == 6
\* passes of the final 1-D dilation: the notebook's value and smaller ones
NIter == {tutorial_n_iter, 1, 2}

\* sample levels of the cube at unit noise: background, between the two
\* thresholds of either notebook, above both
Bg == Num(0)
Mid == Num(4)
Hi == Num(9)

\* A line of sight: its noise estimate and its spectrum.  run(a, b, v, w) is v
\* on the channels a..b (circularly) and w elsewhere.
InRun(c, a, len) == \E k \in 0 .. (len - 1) : c = (a + k) % NC
RunOf(a, len, v, w) == [c \in Chans |-> IF InRun(c, a, len) THEN v ELSE w]
Profiles == {
    [sigma |-> Num(1), vals |-> RunOf(0, 0, Bg, Bg)],          \* noise only
    [sigma |-> Num(1), vals |-> RunOf(0, NC, Hi, Bg)],         \* bright in every channel
    [sigma |-> Num(1), vals |-> RunOf(0, NC, Mid, Bg)],        \* faint in every channel
    [sigma |-> Num(1), vals |-> RunOf(NC - 3, 3, Hi, Bg)],     \* three bright channels at the end
    [sigma |-> Num(1), vals |-> RunOf(NC - 1, 3, Hi, Bg)],     \* bright in the last and the first two
    [sigma |-> Num(1), vals |-> RunOf(1, 3, Hi, Mid)],         \* bright core, faint wings
    [sigma |-> Num(1), vals |-> RunOf(2, 1, NaN, Mid)],        \* faint with one blanked channel
    [sigma |-> Num(0), vals |-> RunOf(1, 3, Mid, Bg)],         \* zero noise estimate
    [sigma |-> NaN, vals |-> RunOf(0, NC, NaN, NaN)]           \* blanked line of sight
}

\* names of the boolean arrays the 3-D notebook allocates
ThrLow == "thr_low"
ThrHigh == "thr_high"
SpkLow == "spk_low"
SpkHigh == "spk_high"
Dilated == "dilated"

VARIABLES
    mode,          \* "1d" or "3d": which procedure this run executes
    pc,            \* the cell of the notebook that runs next
    spec_noise,    \* 1-D: the spectrum
    rms_spec,      \* 1-D: its noise estimate
    mask,          \* 1-D: the high mask (0/1)
    low_mask,      \* 1-D: the low mask (0/1)
    thr_mask,      \* 1-D history: mask as thresholded, before spike removal
    thr_low_mask,  \* 1-D history: low_mask as thresholded
    cube,          \* 3-D: the data cube
    mad_std_map,   \* 3-D: the noise map, one value per line of sight
    snr,           \* 3-D: the (low, high) S/N multipliers of this notebook
    heap,          \* 3-D: the boolean arrays, by name
    low_snr_mask,  \* 3-D: the array the name low_snr_mask is bound to
    high_snr_mask, \* 3-D: the array the name high_snr_mask is bound to
    signal_mask,   \* 3-D: the array the name signal_mask is bound to
    low_snr_mask_labels,
    num_labels,
    num_pixels_in_high_snr_mask,
    num_pixels_in_low_snr_mask,
    high_min_pixels,
    low_min_pixels,
    num,           \* 3-D: the index enumerate() hands to the next iteration
    signal_mask_labels,
    low_before_filter,  \* 3-D history: the low mask when the filter loop starts
    before_dilation,    \* 3-D history: signal_mask when the dilation starts
    n_chan,        \* 1-D: the channel count the expansion loop remembers
    n_turns,       \* 1-D history: the turns of the expansion loop so far
    n_iter,        \* 1-D: the number of passes of the final dilation
    mask_spiked,   \* 1-D history: mask when the expansion loop starts
    mask_expanded, \* 1-D history: mask when the expansion loop has ended
    first_pass,    \* history: the noise estimate of the first pass
    refit_sample,  \* history: the samples the second pass of the estimate used
    cube_13co,     \* line ratio: the cube of the second line
    mad_std_map_12co,
    mad_std_map_13co,
    n_chan_cube,
    masked_moment0_12co,
    masked_moment0_13co,
    unc_ii_12co,
    unc_ii_13co,
    snr_12co,
    snr_13co,
    id_sig,
    ratio_all,
    stat_sample    \* line ratio: the entries of ratio_all the statistics are taken over

vars1 == <<spec_noise, rms_spec, mask, low_mask, thr_mask, thr_low_mask>>
inputs3 == <<cube, mad_std_map, snr, high_min_pixels, low_min_pixels>>
names3 == <<low_snr_mask, high_snr_mask, signal_mask>>
labels3 == <<low_snr_mask_labels, num_labels>>
counts3 == <<num_pixels_in_high_snr_mask, num_pixels_in_low_snr_mask>>
hist3 == <<low_before_filter, before_dilation>>
vars3 == <<inputs3, heap, names3, labels3, counts3, num, signal_mask_labels, hist3>>
loop1 == <<n_chan, n_turns, n_iter, mask_spiked, mask_expanded>>
noise == <<first_pass, refit_sample>>
maps2 == <<mad_std_map_12co, mad_std_map_13co, n_chan_cube, unc_ii_12co, unc_ii_13co>>
moments == <<masked_moment0_12co, masked_moment0_13co>>
stats == <<snr_12co, snr_13co, id_sig, ratio_all, stat_sample>>
ratio == <<cube_13co, moments, maps2, stats>>
more == <<loop1, noise, ratio>>
vars == <<mode, pc, vars1, vars3, more>>

None == <<>>

Idle1 ==
    /\ spec_noise = None
    /\ rms_spec = None
    /\ mask = None
    /\ low_mask = None
    /\ thr_mask = None
    /\ thr_low_mask = None

Fresh3 ==
    /\ heap = None
    /\ low_snr_mask = None
    /\ high_snr_mask = None
    /\ signal_mask = None
    /\ low_snr_mask_labels = None
    /\ num_labels = 0
    /\ num_pixels_in_high_snr_mask = None
    /\ num_pixels_in_low_snr_mask = None
    /\ num = 0
    /\ signal_mask_labels = None
    /\ low_before_filter = None
    /\ before_dilation = None

Fresh1 ==
    /\ n_chan = None
    /\ n_turns = 0
    /\ n_iter = None
    /\ mask_spiked = None
    /\ mask_expanded = None

NoNoise ==
    /\ first_pass = None
    /\ refit_sample = None

NoRatio ==
    /\ cube_13co = None
    /\ mad_std_map_12co = None
    /\ mad_std_map_13co = None
    /\ n_chan_cube = None
    /\ masked_moment0_12co = None
    /\ masked_moment0_13co = None
    /\ unc_ii_12co = None
    /\ unc_ii_13co = None
    /\ snr_12co = None
    /\ snr_13co = None
    /\ id_sig = None
    /\ ratio_all = None
    /\ stat_sample = None

Init1D ==
    /\ mode = "1d"
    /\ pc = "threshold"
    /\ spec_noise \in [Chan1 -> Vals1]
    /\ rms_spec \in RmsVals
    \* astropy's mad_std does not skip NaN: one NaN sample makes the estimate NaN
    /\ (\E i \in Chan1 : spec_noise[i].nan) => rms_spec.nan
    /\ mask = None
    /\ low_mask = None
    /\ thr_mask = None
    /\ thr_low_mask = None
    /\ cube = None
    /\ mad_std_map = None
    /\ snr = None
    /\ high_min_pixels = 0
    /\ low_min_pixels = 0
    /\ Fresh3
    /\ Fresh1
    /\ NoNoise
    /\ NoRatio

Init3D ==
    /\ mode = "3d"
    /\ pc = "threshold"
    /\ Idle1
    /\ \E los \in [Cols -> Profiles] :
          /\ cube = [p \in Cells |-> los[<<p[2], p[3]>>].vals[p[1]]]
          /\ mad_std_map = [xy \in Cols |-> los[xy].sigma]
    /\ snr \in SnrThresholds
    /\ \E mp \in MinPixels :
          /\ high_min_pixels = mp[1]
          /\ low_min_pixels = mp[2]
    /\ Fresh3
    /\ Fresh1
    /\ NoNoise
    /\ NoRatio

\* ------------------------------------------------------------- 1-D cells
\* mask = np.array(spec_noise > high_tresh * rms_spec, dtype = int), and low_mask
Threshold1D ==
    /\ mode = "1d"
    /\ pc = "threshold"
    /\ mask' = Threshold1(spec_noise, high_tresh, rms_spec)
    /\ low_mask' = Threshold1(spec_noise, low_tresh, rms_spec)
    /\ thr_mask' = mask'
    /\ thr_low_mask' = low_mask'
    /\ pc' = "spikes"
    /\ UNCHANGED <<more, mode, spec_noise, rms_spec, vars3>>

\* remove spikes along spectral axis
RemoveSpikes1D ==
    /\ mode = "1d"
    /\ pc = "spikes"
    /\ mask' = RemoveSpikes1(mask)
    /\ low_mask' = RemoveSpikes1(low_mask)
    /\ pc' = "expand"
    /\ UNCHANGED <<more, mode, spec_noise, rms_spec, thr_mask, thr_low_mask, vars3>>

\* n_chan=0, before the while loop of the expansion cell
StartExpand ==
    /\ mode = "1d"
    /\ pc = "expand"
    /\ n_chan' = 0
    /\ n_turns' = 0
    /\ mask_spiked' = mask
    /\ pc' = "while"
    /\ UNCHANGED <<mode, vars1, vars3, n_iter, mask_expanded, noise, ratio>>

\* one turn of  while n_chan!=np.nansum(mask)
ExpandStep ==
    /\ mode = "1d"
    /\ pc = "while"
    /\ n_chan # Sum1(mask)
    /\ n_chan' = Sum1(mask)
    /\ n_turns' = n_turns + 1
    /\ mask' = DilateInto(mask, low_mask)
    /\ UNCHANGED <<mode, pc, spec_noise, rms_spec, low_mask, thr_mask, thr_low_mask,
                   vars3, n_iter, mask_spiked, mask_expanded, noise, ratio>>

\* the loop ends; n_iter=6 (which the notebook asks the reader to adjust) and
\* mask = ndimage.binary_dilation(mask, iterations=n_iter).astype(mask.dtype)
Dilate1D ==
    /\ mode = "1d"
    /\ pc = "while"
    /\ n_chan = Sum1(mask)
    /\ mask_expanded' = mask
    /\ \E n \in NIter :
          /\ n_iter' = n
          /\ mask' = BinaryDilationIter(mask, n)
    /\ pc' = "done"
    /\ UNCHANGED <<mode, spec_noise, rms_spec, low_mask, thr_mask, thr_low_mask,
                   vars3, n_chan, n_turns, mask_spiked, noise, ratio>>

\* ------------------------------------------------------------- 3-D cells
\* Make a low and high mask
Threshold3D ==
    /\ mode = "3d"
    /\ pc = "threshold"
    /\ heap' = (ThrLow :> Threshold3(cube, snr[1], mad_std_map))
                 @@ (ThrHigh :> Threshold3(cube, snr[2], mad_std_map))
    /\ low_snr_mask' = ThrLow
    /\ high_snr_mask' = ThrHigh
    /\ pc' = "spikes"
    /\ UNCHANGED <<more, mode, vars1, inputs3, signal_mask, labels3, counts3, num,
                   signal_mask_labels, hist3>>

\* remove spikes along spectral axis: each & allocates a new array
RemoveSpikes3D ==
    /\ mode = "3d"
    /\ pc = "spikes"
    /\ heap' = (SpkHigh :> RemoveSpikes3(heap[high_snr_mask]))
                 @@ (SpkLow :> RemoveSpikes3(heap[low_snr_mask]))
                 @@ heap
    /\ high_snr_mask' = SpkHigh
    /\ low_snr_mask' = SpkLow
    /\ pc' = "label"
    /\ UNCHANGED <<more, mode, vars1, inputs3, signal_mask, labels3, counts3, num,
                   signal_mask_labels, hist3>>

\* low_snr_mask_labels, num_labels = nd.label(low_snr_mask, structure=structure)
LabelLow ==
    /\ mode = "3d"
    /\ pc = "label"
    /\ LET r == Label(heap[low_snr_mask], structure_label)
       IN /\ low_snr_mask_labels' = r.labels
          /\ num_labels' = r.n
    /\ pc' = "count"
    /\ UNCHANGED <<more, mode, vars1, inputs3, heap, names3, counts3, num,
                   signal_mask_labels, hist3>>

\* the two nd.sum calls, then signal_mask = low_snr_mask: a second name for
\* the same array, no copy
CountPixels ==
    /\ mode = "3d"
    /\ pc = "count"
    /\ num_pixels_in_high_snr_mask' =
          LabelSum(heap[high_snr_mask], low_snr_mask_labels, num_labels)
    /\ num_pixels_in_low_snr_mask' =
          LabelSum(heap[low_snr_mask], low_snr_mask_labels, num_labels)
    /\ signal_mask' = low_snr_mask
    /\ low_before_filter' = heap[low_snr_mask]
    /\ num' = 0
    /\ pc' = "filter"
    /\ UNCHANGED <<more, mode, vars1, inputs3, heap, low_snr_mask, high_snr_mask, labels3,
                   signal_mask_labels, before_dilation>>

KeepsRegionEither(high_pix_num, low_pix_num) ==
    high_pix_num >= high_min_pixels \/ low_pix_num >= low_min_pixels
\* if high_pix_num >= high_min_pixels and low_pix_num >= low_min_pixels: continue
KeepsRegion(high_pix_num, low_pix_num) ==
    high_pix_num >= high_min_pixels /\ low_pix_num >= low_min_pixels

ClearedLabelOffByOne(n) == n
ClearedLabelFromTwo(n) == n + 2
\* the label whose cells iteration n of the loop clears: num + 1
ClearedLabel(n) == n + 1

\* one iteration of the for loop over enumerate(zip(...))
FilterRegion ==
    /\ mode = "3d"
    /\ pc = "filter"
    /\ num < Len(num_pixels_in_high_snr_mask)
    /\ heap' = IF KeepsRegion(num_pixels_in_high_snr_mask[num + 1],
                              num_pixels_in_low_snr_mask[num + 1])
               THEN heap
               ELSE [heap EXCEPT ![signal_mask] =
                        [p \in Cells |-> IF low_snr_mask_labels[p] = ClearedLabel(num)
                                         THEN FALSE ELSE @[p]]]
    /\ num' = num + 1
    /\ UNCHANGED <<more, mode, pc, vars1, inputs3, names3, labels3, counts3,
                   signal_mask_labels, hist3>>

\* the loop is exhausted; signal_mask_labels, num_labels = nd.label(signal_mask, ...)
Relabel ==
    /\ mode = "3d"
    /\ pc = "filter"
    /\ num = Len(num_pixels_in_high_snr_mask)
    /\ LET r == Label(heap[signal_mask], structure_label)
       IN /\ signal_mask_labels' = r.labels
          /\ num_labels' = r.n
    /\ pc' = "dilate"
    /\ UNCHANGED <<more, mode, vars1, inputs3, heap, names3, low_snr_mask_labels, counts3, num,
                   hist3>>

\* signal_mask = nd.binary_dilation(signal_mask, structure=structure, iterations=1)
Dilate ==
    /\ mode = "3d"
    /\ pc = "dilate"
    /\ before_dilation' = heap[signal_mask]
    /\ heap' = (Dilated :> BinaryDilation(heap[signal_mask], structure)) @@ heap
    /\ signal_mask' = Dilated
    /\ pc' = "done"
    /\ UNCHANGED <<more, mode, vars1, inputs3, low_snr_mask, high_snr_mask, labels3, counts3,
                   num, signal_mask_labels, low_before_filter>>

\* ------------------------------------------------ the procedures as functions
\* the 1-D cells from the thresholds to the final dilation, for the S/N
\* multipliers lo and hi and n passes of the final dilation
Mask1(spec, rms, lo, hi, n) ==
    LET high == Array(RemoveSpikes1(Array(Threshold1(spec, hi, rms))))
        low == Array(RemoveSpikes1(Array(Threshold1(spec, lo, rms))))
    IN BinaryDilationIter(ExpandLoop(0, high, low), n)

\* the 3-D cells from the thresholds to the final dilation, for the S/N
\* multipliers lo and hi and the minima of this run
SignalMask3(data, sigma, lo, hi) ==
    LET high == Array(RemoveSpikes3(Array(Threshold3(data, hi, sigma))))
        low == Array(RemoveSpikes3(Array(Threshold3(data, lo, sigma))))
        r == Label(low, structure_label)
        labels == Array(r.labels)
        in_high == Array(LabelSum(high, labels, r.n))
        in_low == Array(LabelSum(low, labels, r.n))
        kept == Array([p \in Cells |->
                          /\ low[p]
                          /\ KeepsRegion(in_high[labels[p]], in_low[labels[p]])])
    IN Array(BinaryDilation(kept, structure))

Init == Init1D \/ Init3D

Next ==
    \/ Threshold1D
    \/ RemoveSpikes1D
    \/ StartExpand
    \/ ExpandStep
    \/ Dilate1D
    \/ Threshold3D
    \/ RemoveSpikes3D
    \/ LabelLow
    \/ CountPixels
    \/ FilterRegion
    \/ Relabel
    \/ Dilate

Spec == Init /\ [][Next]_vars

\* =================================================================
\* The 3-D procedure on a field with one injected block, under
\* configurations a caller may hand over, sensible or not
\* =================================================================
\* the block: three channels in the middle of the spectral axis, ten times the noise
BlockFirst == (NC - 3) \div 2
BlockChans == BlockFirst .. (BlockFirst + 2)
Block == Num(10)

\* a rectangle of lines of sight
Rect(y0, y1, x0, x1) == {xy \in Cols : xy[1] \in y0 .. y1 /\ xy[2] \in x0 .. x1}

\* the field: the block over the lines of sight R, one cell e (or none) between
\* the two thresholds in another line of sight, background elsewhere
BlockField(R, e) ==
    [p \in Cells |->
        IF <<p[2], p[3]>> \in R /\ p[1] \in BlockChans THEN Block
        ELSE IF p = e THEN Mid
        ELSE Bg]

\* (low, high) multipliers: a valid pair, and low above high
BlockThresholds == {<<3, 6>>, <<5, 3>>}
\* (high_min_pixels, low_min_pixels): valid pairs, and a negative minimum
BlockMinPixels == {<<5, 10>>, <<2, 3>>, <<-1, 3>>}

InitBlock ==
    /\ mode = "3d"
    /\ pc = "threshold"
    /\ Idle1
    /\ \E y0, y1 \in 0 .. (NY - 1), x0, x1 \in 0 .. (NX - 1) :
          /\ y0 <= y1
          /\ x0 <= x1
          /\ \E e \in {p \in Cells : <<p[2], p[3]>> \notin Rect(y0, y1, x0, x1)} \cup {None} :
                cube = BlockField(Rect(y0, y1, x0, x1), e)
    /\ mad_std_map = [xy \in Cols |-> Num(1)]
    /\ snr \in BlockThresholds
    /\ \E mp \in BlockMinPixels :
          /\ high_min_pixels = mp[1]
          /\ low_min_pixels = mp[2]
    /\ Fresh3
    /\ Fresh1
    /\ NoNoise
    /\ NoRatio

Next3D ==
    \/ Threshold3D
    \/ RemoveSpikes3D
    \/ LabelLow
    \/ CountPixels
    \/ FilterRegion
    \/ Relabel
    \/ Dilate

SpecBlock == InitBlock /\ [][Next3D]_vars

\* =================================================================
\* The procedures with the noise estimate computed from the data
\* =================================================================
\* sample values of a 1-D spectrum whose noise is estimated
NoiseVals1 == {Num(0 - 8 * Unit), Num(0 - Unit), Num(0), Num(8 * Unit)}

\* spectra of a line of sight whose noise is estimated
Flat(v) == [c \in Chans |-> v]
LineOverNoise(first) ==
    [c \in Chans |-> IF c = 0 THEN first
                     ELSE IF c = 1 THEN Num(0 - Unit)
                     ELSE Num(8 * Unit)]
NoiseWithDip ==
    [c \in Chans |-> IF c = 0 THEN Num(0 - 8 * Unit)
                     ELSE IF c % 3 = 1 THEN Num(0)
                     ELSE IF c % 3 = 2 THEN Num(Unit)
                     ELSE Num(0 - Unit)]
NoiseProfiles == {
    Flat(Num(0 - Unit)),               \* constant, negative
    Flat(Num(0)),                      \* constant, zero
    Flat(Num(8 * Unit)),               \* constant, positive
    LineOverNoise(Num(0 - 2 * Unit)),  \* a line over most of the band
    LineOverNoise(NaN),                \* the same with a blanked channel
    NoiseWithDip                       \* noise with one strongly negative sample
}

InitNoise1D ==
    /\ mode = "1d"
    /\ pc = "noise"
    /\ spec_noise \in [Chan1 -> NoiseVals1]
    /\ rms_spec = None
    /\ mask = None
    /\ low_mask = None
    /\ thr_mask = None
    /\ thr_low_mask = None
    /\ cube = None
    /\ mad_std_map = None
    /\ snr = None
    /\ high_min_pixels = 0
    /\ low_min_pixels = 0
    /\ Fresh3
    /\ Fresh1
    /\ NoNoise
    /\ NoRatio

\* all lines of sight hold one spectrum, but for one that may hold another
InitNoise3D ==
    /\ mode = "3d"
    /\ pc = "noise"
    /\ Idle1
    /\ \E base \in NoiseProfiles, other \in NoiseProfiles, xy \in Cols :
          cube = [p \in Cells |-> IF <<p[2], p[3]>> = xy THEN other[p[1]] ELSE base[p[1]]]
    /\ mad_std_map = None
    /\ snr \in SnrThresholds
    /\ \E mp \in MinPixels :
          /\ high_min_pixels = mp[1]
          /\ low_min_pixels = mp[2]
    /\ Fresh3
    /\ Fresh1
    /\ NoNoise
    /\ NoRatio

\* rms_spec = mad_std(spec_noise)
FirstPass1D ==
    /\ mode = "1d"
    /\ pc = "noise"
    /\ rms_spec' = MadStd(spec_noise, Chan1)
    /\ pc' = "refit"
    /\ UNCHANGED <<mode, spec_noise, mask, low_mask, thr_mask, thr_low_mask, vars3, more>>

\* rms_spec = mad_std(spec_noise[spec_noise<3*rms_spec])
SecondPass1D ==
    /\ mode = "1d"
    /\ pc = "refit"
    /\ first_pass' = rms_spec
    /\ refit_sample' = {i \in Chan1 : ClipKeeps(spec_noise[i], rms_spec)}
    /\ rms_spec' = MadStd(spec_noise, refit_sample')
    /\ pc' = "threshold"
    /\ UNCHANGED <<mode, spec_noise, mask, low_mask, thr_mask, thr_low_mask, vars3,
                   loop1, ratio>>

\* mad_std_map = cube.mad_std(axis=0)
FirstPass3D ==
    /\ mode = "3d"
    /\ pc = "noise"
    /\ mad_std_map' = MadStdMap(cube, [p \in Cells |-> TRUE])
    /\ pc' = "refit"
    /\ UNCHANGED <<mode, vars1, cube, snr, high_min_pixels, low_min_pixels, heap, names3,
                   labels3, counts3, num, signal_mask_labels, hist3, more>>

\* mad_std_map = cube.with_mask(cube<3*mad_std_map).mad_std(axis=0)
SecondPass3D ==
    /\ mode = "3d"
    /\ pc = "refit"
    /\ first_pass' = mad_std_map
    /\ refit_sample' = {p \in Cells : ClipMask(cube, mad_std_map)[p]}
    /\ mad_std_map' = MadStdMap(cube, ClipMask(cube, mad_std_map))
    /\ pc' = "threshold"
    /\ UNCHANGED <<mode, vars1, cube, snr, high_min_pixels, low_min_pixels, heap, names3,
                   labels3, counts3, num, signal_mask_labels, hist3, loop1, ratio>>

InitNoise == InitNoise1D \/ InitNoise3D

NextNoise ==
    \/ FirstPass1D
    \/ SecondPass1D
    \/ Threshold1D
    \/ RemoveSpikes1D
    \/ StartExpand
    \/ ExpandStep
    \/ Dilate1D
    \/ FirstPass3D
    \/ SecondPass3D
    \/ Threshold3D
    \/ RemoveSpikes3D
    \/ LabelLow
    \/ CountPixels
    \/ FilterRegion
    \/ Relabel
    \/ Dilate

SpecNoise == InitNoise /\ [][NextNoise]_vars

\* =================================================================
\* The line-ratio notebook: the mask from the first line, then the
\* moments, uncertainties and ratio of the two lines
\* =================================================================
\* the channel width CDELT3, in the velocity unit of the model
delta_v == 1

\* spectra of a line of sight of the second line: a line over most of the
\* band, noise with one bright sample, faint noise
Line13 ==
    [c \in Chans |-> IF c = 0 THEN Num(0 - Unit)
                     ELSE IF c = 1 THEN Num(Unit)
                     ELSE Num(4 * Unit)]
Spike13 ==
    [c \in Chans |-> IF c = 0 THEN Num(0 - Unit)
                     ELSE IF c = 1 THEN Num(Unit)
                     ELSE IF c = NC - 1 THEN Num(8 * Unit)
                     ELSE Num(0)]
Weak13 ==
    [c \in Chans |-> IF c = 0 THEN Num(0 - Unit)
                     ELSE IF c \in {1, 3} THEN Num(Unit)
                     ELSE Num(0)]
Profiles13 == {Line13, Spike13, Weak13}

RECURSIVE SumOver(_, _)
SumOver(g, K) ==
    IF K = {} THEN 0
    ELSE LET k == CHOOSE k \in K : TRUE IN g[k] + SumOver(g, K \ {k})

\* a.with_mask(m).moment0(): per line of sight the sum, times the channel
\* width, of the samples that are in the mask and not NaN; NaN where there is none
Moment0(a, m) ==
    [xy \in Cols |->
        LET K == {c \in Chans : m[<<c, xy[1], xy[2]>>] /\ ~a[<<c, xy[1], xy[2]>>].nan}
        IN IF K = {} THEN NaN
           ELSE Num(delta_v * SumOver([c \in K |-> a[<<c, xy[1], xy[2]>>].v], K))]

\* a.mad_std(axis=0)
FirstPassMap(a) == MadStdMap(a, [p \in Cells |-> TRUE])

\* np.nansum(m, axis=0)
NChanCube(m) == [xy \in Cols |-> Cardinality({c \in Chans : m[<<c, xy[1], xy[2]>>]})]

\* sigma.value*delta_v*np.sqrt(n): the product is kept as the pair of
\* sigma*delta_v and n, which stands for sigma * delta_v * sqrt(n)
Uncertainty(sigma, n) == [xy \in Cols |-> [sigma |-> Mul(delta_v, sigma[xy]), n |-> n[xy]]]

\* a quotient of two arrays, kept as numerator and denominator
Quotient(a, b) == [xy \in Cols |-> [num |-> a[xy], den |-> b[xy]]]

\* x1 / y1 > x2 / y2 for x1, x2 >= 0 and y1, y2 > 0: by the integer parts, and
\* where they agree by the inverses of the fractional parts
RECURSIVE FracGt(_, _, _, _)
FracGt(x1, y1, x2, y2) ==
    IF x1 \div y1 # x2 \div y2 THEN x1 \div y1 > x2 \div y2
    ELSE IF x1 % y1 = 0 THEN FALSE
    ELSE IF x2 % y2 = 0 THEN TRUE
    ELSE FracGt(y2, x2 % y2, y1, x1 % y1)

\* q > 3 for the quotient q of a moment m and an uncertainty s * sqrt(n):
\* false with a NaN on either side; a division by zero gives inf, -inf or NaN
\* by the sign of m; else m > 3 s sqrt(n), that is m / (3 s) > (3 s n) / m
Above3(q) ==
    LET m == q.num
        s == q.den.sigma
        n == q.den.n
    IN IF m.nan \/ s.nan THEN FALSE
       ELSE IF s.v = 0 \/ n = 0 THEN m.v > 0
       ELSE m.v > 0 /\ FracGt(m.v, 3 * s.v, 3 * s.v * n, m.v)

\* the quotient q of two moments is NaN
IsNaN(q) == q.num.nan \/ q.den.nan \/ (q.num.v = 0 /\ q.den.v = 0)

\* both cubes hold one spectrum on all lines of sight, but for one
InitRatio ==
    /\ mode = "3d"
    /\ pc = "noise"
    /\ Idle1
    /\ \E base \in NoiseProfiles, other \in NoiseProfiles, xy \in Cols,
          base13 \in Profiles13, other13 \in Profiles13 :
          /\ cube = [p \in Cells |-> IF <<p[2], p[3]>> = xy THEN other[p[1]] ELSE base[p[1]]]
          /\ cube_13co =
                [p \in Cells |-> IF <<p[2], p[3]>> = xy THEN other13[p[1]] ELSE base13[p[1]]]
    /\ mad_std_map = None
    /\ snr = <<3, 6>>
    /\ \E mp \in MinPixels :
          /\ high_min_pixels = mp[1]
          /\ low_min_pixels = mp[2]
    /\ Fresh3
    /\ Fresh1
    /\ NoNoise
    /\ mad_std_map_12co = None
    /\ mad_std_map_13co = None
    /\ n_chan_cube = None
    /\ masked_moment0_12co = None
    /\ masked_moment0_13co = None
    /\ unc_ii_12co = None
    /\ unc_ii_13co = None
    /\ snr_12co = None
    /\ snr_13co = None
    /\ id_sig = None
    /\ ratio_all = None
    /\ stat_sample = None

\* masked_cube.moment0() of the two cubes under signal_mask
Moments ==
    /\ mode = "3d"
    /\ pc = "done"
    /\ cube_13co # None
    /\ masked_moment0_12co' = Moment0(cube, heap[signal_mask])
    /\ masked_moment0_13co' = Moment0(cube_13co, heap[signal_mask])
    /\ pc' = "rms"
    /\ UNCHANGED <<mode, vars1, vars3, loop1, noise, cube_13co, maps2, stats>>

\* n_chan_cube, the channel rms of the two cubes, the uncertainties
ChannelRms ==
    /\ mode = "3d"
    /\ pc = "rms"
    /\ n_chan_cube' = NChanCube(heap[signal_mask])
    /\ mad_std_map_12co' = MadStdMap(cube, ClipMask(cube, FirstPassMap(cube)))
    \* the second pass of 13CO is clipped at 3*mad_std_map, the map of the mask cell
    /\ mad_std_map_13co' = MadStdMap(cube_13co, ClipMask(cube_13co, mad_std_map))
    /\ unc_ii_12co' = Uncertainty(mad_std_map_12co', n_chan_cube')
    /\ unc_ii_13co' = Uncertainty(mad_std_map_13co', n_chan_cube')
    /\ pc' = "significant"
    /\ UNCHANGED <<mode, vars1, vars3, loop1, noise, cube_13co, moments, stats>>

\* snr_12co, snr_13co, id_sig = np.where((snr_12co>3) & (snr_13co>3))
Significant ==
    /\ mode = "3d"
    /\ pc = "significant"
    /\ snr_12co' = Quotient(masked_moment0_12co, unc_ii_12co)
    /\ snr_13co' = Quotient(masked_moment0_13co, unc_ii_13co)
    /\ id_sig' = {xy \in Cols : Above3(snr_12co'[xy]) /\ Above3(snr_13co'[xy])}
    /\ pc' = "ratio"
    /\ UNCHANGED <<mode, vars1, vars3, loop1, noise, cube_13co, moments, maps2,
                   ratio_all, stat_sample>>

\* ratio_all = masked_moment0_13co / masked_moment0_12co
Ratio ==
    /\ mode = "3d"
    /\ pc = "ratio"
    /\ ratio_all' = Quotient(masked_moment0_13co, masked_moment0_12co)
    /\ pc' = "statistics"
    /\ UNCHANGED <<mode, vars1, vars3, loop1, noise, cube_13co, moments, maps2,
                   snr_12co, snr_13co, id_sig, stat_sample>>

\* np.nanmedian(ratio_all), np.nanpercentile(ratio_all, ...), plt.hist(ratio_all):
\* taken over the entries of ratio_all that are not NaN
Statistics ==
    /\ mode = "3d"
    /\ pc = "statistics"
    /\ stat_sample' = {xy \in Cols : ~IsNaN(ratio_all[xy])}
    /\ pc' = "end"
    /\ UNCHANGED <<mode, vars1, vars3, loop1, noise, cube_13co, moments, maps2,
                   snr_12co, snr_13co, id_sig, ratio_all>>

NextRatio ==
    \/ FirstPass3D
    \/ SecondPass3D
    \/ Threshold3D
    \/ RemoveSpikes3D
    \/ LabelLow
    \/ CountPixels
    \/ FilterRegion
    \/ Relabel
    \/ Dilate
    \/ Moments
    \/ ChannelRms
    \/ Significant
    \/ Ratio
    \/ Statistics

SpecRatio == InitRatio /\ [][NextRatio]_vars

\* =================================================================
\* Properties
\* =================================================================

\* the array a name of the notebook is bound to
At(name) == heap[name]

\* 26-connectivity stated directly: two distinct cells at most one apart on every axis
Adj26(p, q) ==
    /\ p # q
    /\ p[1] - q[1] \in -1 .. 1
    /\ p[2] - q[2] \in -1 .. 1
    /\ p[3] - q[3] \in -1 .. 1

RECURSIVE Reach26(_, _)
Reach26(S, T) ==
    LET N == {q \in T \ S : \E p \in S : Adj26(p, q)}
    IN IF N = {} THEN S ELSE Reach26(S \cup N, T)

\* the 26-connected region of the true cells of a that holds p
RegionOf(p, a) == Reach26({p}, {q \in Cells : a[q]})

CountIn(R, a) == Cardinality({q \in R : a[q]})

\* the filter loop has ended and signal_mask is not yet dilated
Filtered == mode = "3d" /\ pc = "dilate"

\* the region of the low mask that holds p passes both criteria of the filter
RegionPasses(p) ==
    LET R == RegionOf(p, low_before_filter)
    IN /\ CountIn(R, At(high_snr_mask)) >= high_min_pixels
       /\ CountIn(R, low_before_filter) >= low_min_pixels

\* C1: after the region-filter loop a cell is true in signal_mask if and only
\* if it is true in the spike-suppressed low mask and its 26-connected region
\* of that mask holds at least high_min_pixels high-mask cells and at least
\* low_min_pixels low-mask cells; every cell of a failing region is false.
C1_RegionFilter ==
    Filtered =>
        \A p \in Cells :
            At(signal_mask)[p] <=> (low_before_filter[p] /\ RegionPasses(p))

\* a run in which the filter kept one region and removed another
C1_Witness ==
    /\ Filtered
    /\ \E p \in Cells : At(signal_mask)[p]
    /\ \E q \in Cells : low_before_filter[q] /\ ~At(signal_mask)[q]

\* C2: the region filter preserves low_snr_mask: after the loop low_snr_mask
\* holds exactly the values it held before the loop, and signal_mask is a new
\* array.
C2_LowMaskPreserved ==
    Filtered => (At(low_snr_mask) = low_before_filter /\ signal_mask # low_snr_mask)

\* the 8 neighbours of p in its own channel
Spatial8(p) ==
    {q \in Cells : q # p /\ q[1] = p[1] /\ q[2] - p[2] \in -1 .. 1 /\ q[3] - p[3] \in -1 .. 1}

\* the cells at p's position in the previous and the next channel
Spectral2(p) ==
    {q \in Cells : q[2] = p[2] /\ q[3] = p[3] /\ (q[1] = p[1] - 1 \/ q[1] = p[1] + 1)}

Dilation == mode = "3d" /\ pc = "done"

\* C3 as stated: a cell that is false before the dilation and whose 8 spatial
\* neighbours in its channel are all false is still false after it, whatever
\* the cells at (c-1, y, x) and (c+1, y, x) hold.
C3_NoSpectralSpread ==
    Dilation =>
        \A p \in Cells :
            (~before_dilation[p] /\ \A q \in Spatial8(p) : ~before_dilation[q])
                => ~At(signal_mask)[p]

\* C3 amended: a cell that is false before the dilation, whose 8 spatial
\* neighbours in its channel are all false and whose two spectral neighbours
\* (c-1, y, x) and (c+1, y, x) are false too, is still false after it: the
\* dilation reaches one channel up and down from a true cell, at its own
\* spatial position only.
C3_SpreadOnlyFromStructure ==
    Dilation =>
        \A p \in Cells :
            (/\ ~before_dilation[p]
             /\ \A q \in Spatial8(p) : ~before_dilation[q]
             /\ \A q \in Spectral2(p) : ~before_dilation[q])
                => ~At(signal_mask)[p]

\* a cell the dilation left false although a diagonal neighbour in the next
\* or the previous channel was true
C3_Witness ==
    /\ Dilation
    /\ \E p \in Cells :
          /\ ~before_dilation[p]
          /\ \A q \in Spatial8(p) \cup Spectral2(p) : ~before_dilation[q]
          /\ \E q \in Cells : Adj26(p, q) /\ before_dilation[q]
          /\ ~At(signal_mask)[p]

\* C4 as stated: the final mask has the shape of the input and is false at
\* every cell where the input is NaN.
C4_FalseAtNaN ==
    Dilation =>
        /\ DOMAIN At(signal_mask) = DOMAIN cube
        /\ \A p \in Cells : cube[p].nan => ~At(signal_mask)[p]

\* the cells the structuring element of the dilation reaches from q
Reached(q) == {q} \cup Spatial8(q) \cup Spectral2(q)

\* C4 amended: the final mask has the shape of the input; the mask is false at
\* every NaN cell up to the dilation, and the final mask is true at a NaN cell
\* only where the dilation reached it from a true cell of the filtered mask,
\* which is not NaN.
C4_FalseAtNaNUnlessDilatedInto ==
    Dilation =>
        /\ DOMAIN At(signal_mask) = DOMAIN cube
        /\ \A p \in Cells :
              cube[p].nan =>
                  /\ ~before_dilation[p]
                  /\ At(signal_mask)[p] =>
                        \E q \in Cells : p \in Reached(q) /\ before_dilation[q] /\ ~cube[q].nan

\* a finished run on a cube with NaN cells, one of them next to the mask and
\* one of them away from it
C4_Witness ==
    /\ Dilation
    /\ \E p \in Cells : cube[p].nan /\ At(signal_mask)[p]
    /\ \E p \in Cells : cube[p].nan /\ ~At(signal_mask)[p]

\* the cells of the re-labelled region i
Footprint(i) == {p \in Cells : signal_mask_labels[p] = i}

\* a set of cells holds enough cells of the masks as they were before the filter
EnoughIn(R) ==
    /\ CountIn(R, At(SpkHigh)) >= high_min_pixels
    /\ CountIn(R, low_before_filter) >= low_min_pixels

\* C5: every connected region of the mask the filter leaves, as nd.label
\* re-labels it, holds at least high_min_pixels cells of the pre-filter high
\* mask and at least low_min_pixels cells of the pre-filter low mask inside its
\* footprint; the same holds of every 26-connected region of the dilated mask.
C5_RegionsSatisfyCriteria ==
    /\ Filtered => \A i \in 1 .. num_labels : EnoughIn(Footprint(i))
    /\ Dilation => \A p \in Cells :
                      At(signal_mask)[p] => EnoughIn(RegionOf(p, At(signal_mask)))

\* the filter removed a region and kept another, which was re-labelled
C5_Witness ==
    /\ Filtered
    /\ num_labels >= 1
    /\ Len(num_pixels_in_low_snr_mask) > num_labels

\* the low-mask region with label i is still in the mask after the loop
Kept(i) == \E p \in Cells : low_snr_mask_labels[p] = i /\ At(signal_mask)[p]

\* C6: with high_min_pixels = 10 and low_min_pixels = 20, every region the
\* filter keeps holds strictly more than 10 high-mask pixels and strictly more
\* than 20 low-mask pixels; every other region is removed.
C6_StrictlyMoreThanMinPixels ==
    (/\ Filtered
     /\ high_min_pixels = tutorial_high_min_pixels
     /\ low_min_pixels = tutorial_low_min_pixels)
        => \A i \in 1 .. Len(num_pixels_in_low_snr_mask) :
              Kept(i) <=> (/\ num_pixels_in_high_snr_mask[i] > 10
                           /\ num_pixels_in_low_snr_mask[i] > 20)

\* the channels np.roll pairs with channel i: the one before and the one after
\* it, the last channel standing before the first
PrevChan(i, n) == (i + n - 1) % n
NextChan(i, n) == (i + 1) % n

\* m1 keeps exactly the channels that are set in m0 together with both neighbours
KeepsTriples1(m1, m0) ==
    \A i \in Chan1 :
        /\ m1[i] \in {0, 1}
        /\ m1[i] = 1 <=> (m0[i] = 1 /\ m0[PrevChan(i, NChan)] = 1 /\ m0[NextChan(i, NChan)] = 1)

KeepsTriples3(m1, m0) ==
    \A p \in Cells :
        m1[p] <=> (/\ m0[p]
                   /\ m0[<<PrevChan(p[1], NC), p[2], p[3]>>]
                   /\ m0[<<NextChan(p[1], NC), p[2], p[3]>>])

Spiked1 == mode = "1d" /\ pc = "expand"
Spiked3 == mode = "3d" /\ pc = "label"

\* C7: spike suppression, applied to each of the low and the high mask, keeps
\* a cell true if and only if the cell and both its spectral neighbours (the
\* previous and the next channel at the same position, as np.roll pairs them)
\* are true before suppression; no other cell is consulted.
C7_SpikeSuppression ==
    /\ Spiked1 => (KeepsTriples1(mask, thr_mask) /\ KeepsTriples1(low_mask, thr_low_mask))
    /\ Spiked3 => (/\ KeepsTriples3(At(high_snr_mask), At(ThrHigh))
                   /\ KeepsTriples3(At(low_snr_mask), At(ThrLow)))

\* suppression kept a channel of the high mask and removed another
C7_Witness ==
    /\ Spiked1
    /\ \E i \in Chan1 : mask[i] = 1
    /\ \E i \in Chan1 : thr_mask[i] = 1 /\ mask[i] = 0
    /\ \E i \in Chan1 : thr_low_mask[i] = 1 /\ low_mask[i] = 0 /\ thr_mask[i] = 0

\* no set channel of m has both neighbours clear in n
NoneAlone(m, n) ==
    \A i \in Chan1 :
        m[i] = 1 => ~(n[PrevChan(i, NChan)] = 0 /\ n[NextChan(i, NChan)] = 0)

\* C8 as stated: the mask after spike suppression contains no true cell both
\* of whose spectral neighbours are false.
C8_NoLoneSampleAfter ==
    Spiked1 => (NoneAlone(mask, mask) /\ NoneAlone(low_mask, low_mask))

\* C8 amended: a true sample both of whose spectral neighbours are false
\* before suppression is never present after it: the mask after spike
\* suppression contains no true cell both of whose spectral neighbours were
\* false in the mask before suppression.  (A run of exactly three leaves its
\* middle channel alone in the mask after suppression.)
C8_NoLoneSampleSurvives ==
    Spiked1 => (NoneAlone(mask, thr_mask) /\ NoneAlone(low_mask, thr_low_mask))

\* a lone sample of the thresholded mask was removed while a run survived
C8_Witness ==
    /\ Spiked1
    /\ \E i \in Chan1 :
          /\ thr_mask[i] = 1
          /\ thr_mask[PrevChan(i, NChan)] = 0
          /\ thr_mask[NextChan(i, NChan)] = 0
          /\ mask[i] = 0
    /\ \E i \in Chan1 : mask[i] = 1

\* C9: every channel that is true after spike removal is the middle one of
\* three index-adjacent channels that were above threshold before it, the
\* first and the last channel included.
C9_MiddleOfThreeAdjacent ==
    /\ Spiked1 =>
          \A i \in Chan1 :
              (mask[i] = 1 =>
                  (/\ i - 1 \in Chan1 /\ i + 1 \in Chan1
                   /\ thr_mask[i - 1] = 1 /\ thr_mask[i] = 1 /\ thr_mask[i + 1] = 1))
              /\ (low_mask[i] = 1 =>
                  (/\ i - 1 \in Chan1 /\ i + 1 \in Chan1
                   /\ thr_low_mask[i - 1] = 1 /\ thr_low_mask[i] = 1
                   /\ thr_low_mask[i + 1] = 1))
    /\ Spiked3 =>
          \A p \in Cells :
              At(low_snr_mask)[p] =>
                  (/\ p[1] - 1 \in Chans /\ p[1] + 1 \in Chans
                   /\ At(ThrLow)[<<p[1] - 1, p[2], p[3]>>]
                   /\ At(ThrLow)[p]
                   /\ At(ThrLow)[<<p[1] + 1, p[2], p[3]>>])

\* value > k * sigma, neither of them NaN
Exceeds(val, k, sigma) == (~val.nan) /\ (~sigma.nan) /\ val.v > k * sigma.v

\* C10: the low mask is true exactly at the cells with value > low_sigma *
\* sigma and the high mask exactly at the cells with value > high_sigma *
\* sigma (strict; sigma the noise estimate at the cell's spatial position); a
\* NaN value or a NaN sigma makes the cell false in both masks.
C10_Thresholds ==
    /\ (mode = "1d" /\ pc = "spikes") =>
          \A i \in Chan1 :
              /\ low_mask[i] = (IF Exceeds(spec_noise[i], 2, rms_spec) THEN 1 ELSE 0)
              /\ mask[i] = (IF Exceeds(spec_noise[i], 4, rms_spec) THEN 1 ELSE 0)
              /\ (spec_noise[i].nan \/ rms_spec.nan) => (low_mask[i] = 0 /\ mask[i] = 0)
    /\ (mode = "3d" /\ pc = "spikes") =>
          \A p \in Cells :
              LET sigma == mad_std_map[<<p[2], p[3]>>]
              IN /\ At(low_snr_mask)[p] <=> Exceeds(cube[p], snr[1], sigma)
                 /\ At(high_snr_mask)[p] <=> Exceeds(cube[p], snr[2], sigma)
                 /\ (cube[p].nan \/ sigma.nan) =>
                       (~At(low_snr_mask)[p] /\ ~At(high_snr_mask)[p])

\* a thresholded cube of Tutorial_1b with a NaN sample on a line of sight with
\* a finite noise value, a sample exactly at the high threshold (in the low
\* mask only) and one above both thresholds
C10_Witness ==
    /\ mode = "3d" /\ pc = "spikes"
    /\ snr = <<2, 4>>
    /\ \E p \in Cells :
          /\ cube[p].nan
          /\ ~mad_std_map[<<p[2], p[3]>>].nan
          /\ ~At(low_snr_mask)[p]
    /\ \E p \in Cells :
          /\ mad_std_map[<<p[2], p[3]>>] = Num(1)
          /\ cube[p] = Num(4)
          /\ At(low_snr_mask)[p]
          /\ ~At(high_snr_mask)[p]
    /\ \E p \in Cells : At(high_snr_mask)[p]

\* ------------------------------------------------------------------ C11
\* the 1-D run has ended
Done1 == mode = "1d" /\ pc = "done"

\* a is true nowhere b is not
Within1(a, b) == \A i \in Chan1 : a[i] = 1 => b[i] = 1
Within3(a, b) == \A p \in Cells : a[p] => b[p]

\* valid pairs (low, high) of S/N multipliers around those of the notebooks
Grid1 == {<<1, 3>>, <<1, 4>>, <<2, 3>>, <<2, 5>>, <<4, 5>>}
Grid3 == {<<2, 4>>, <<3, 6>>, <<5, 6>>, <<5, 9>>}

\* s is at least as strict as t in both multipliers
Stricter(s, t) == s[1] >= t[1] /\ s[2] >= t[2]

\* C11: for a fixed field, noise estimate, minima and dilation count, the
\* mask of a pair of multipliers that is at least as large in both is a subset
\* of the mask of the smaller pair: the run's mask holds the mask of every
\* stricter pair and lies within the mask of every laxer pair.
C11_Monotone ==
    /\ Done1 =>
          /\ mask = Mask1(spec_noise, rms_spec, low_tresh, high_tresh, n_iter)
          /\ \A s \in Grid1 :
                LET m == Mask1(spec_noise, rms_spec, s[1], s[2], n_iter)
                IN /\ Stricter(s, <<low_tresh, high_tresh>>) => Within1(m, mask)
                   /\ Stricter(<<low_tresh, high_tresh>>, s) => Within1(mask, m)
    /\ Dilation =>
          /\ At(signal_mask) = SignalMask3(cube, mad_std_map, snr[1], snr[2])
          /\ \A s \in Grid3 :
                LET m == SignalMask3(cube, mad_std_map, s[1], s[2])
                IN /\ Stricter(s, snr) => Within3(m, At(signal_mask))
                   /\ Stricter(snr, s) => Within3(At(signal_mask), m)

\* a cube for which a stricter pair gives a smaller mask that is not empty,
\* and a spectrum for which a laxer pair gives a larger mask
C11_Witness ==
    \/ /\ Dilation
       /\ \E s \in Grid3 :
             LET m == SignalMask3(cube, mad_std_map, s[1], s[2])
             IN /\ Stricter(s, snr)
                /\ \E p \in Cells : m[p]
                /\ \E p \in Cells : At(signal_mask)[p] /\ ~m[p]
    \/ /\ Done1
       /\ \E i \in Chan1 : mask[i] = 1
       /\ \E s \in Grid1 :
             LET m == Mask1(spec_noise, rms_spec, s[1], s[2], n_iter)
             IN /\ Stricter(<<low_tresh, high_tresh>>, s)
                /\ \E i \in Chan1 : m[i] = 1 /\ mask[i] = 0

\* ------------------------------------------------------------------ C12
\* the mask of one call with iterations = a, dilated b more times one pass at
\* a time
InTwoGoes(m, a, b) == Repeat1(BinaryDilationIter(m, a), b)

InvalidConfiguration ==
    \/ snr[1] >= snr[2]
    \/ snr[1] <= 0
    \/ snr[2] <= 0
    \/ high_min_pixels < 0
    \/ low_min_pixels < 0

\* C13: an invalid configuration (low_sigma >= high_sigma, a non-positive
\* multiplier, a negative min-pixel threshold) ends the run before any mask or
\* noise value is computed from the data: no mask is produced.
C13_InvalidConfigurationRejected ==
    (mode = "3d" /\ InvalidConfiguration) => (pc = "threshold" /\ heap = None)

\* ------------------------------------------------------------------ C17
\* the lines of sight of the block, the cells of the block and of its middle channel
BlockCols == {xy \in Cols : cube[<<BlockFirst, xy[1], xy[2]>>] = Block}
BlockCells == {p \in Cells : <<p[2], p[3]>> \in BlockCols /\ p[1] \in BlockChans}
MiddlePlane == {p \in BlockCells : p[1] = BlockFirst + 1}
PlaneSize == Cardinality(BlockCols)

\* a run of scenario 3: its multipliers, minima that are not negative
Scenario3 ==
    /\ mode = "3d"
    /\ snr = <<3, 6>>
    /\ high_min_pixels >= 0
    /\ low_min_pixels >= 0

\* the minima relate to the block as in the scenario, where 5 <= 9 < 10 <= 27:
\* min_high_pixels <= a channel of the block < min_low_pixels <= the block
AsInScenario3 ==
    /\ high_min_pixels <= PlaneSize
    /\ PlaneSize < low_min_pixels
    /\ low_min_pixels <= 3 * PlaneSize

\* C17 as stated: with minima that relate to the block as those of scenario 3
\* do, the injected block survives into the final mask and no single-voxel
\* exceedance of the low threshold is true in it.
C17_BlockSurvives ==
    (Dilation /\ Scenario3 /\ AsInScenario3) =>
        /\ \A p \in BlockCells : At(signal_mask)[p]
        /\ \A p \in Cells : cube[p] = Mid => ~At(signal_mask)[p]

\* C17, amended: spike suppression leaves the middle channel of the block
\* only, so the filter sees a region of one channel of the block (9 cells in
\* the scenario): the block is in the final mask exactly when that count
\* reaches both minima, and when it is below min_low_pixels (as 9 < 10 in the
\* scenario) the final mask is entirely false.
C17_OneChannelCounts ==
    (Dilation /\ Scenario3) =>
        LET passes == PlaneSize >= high_min_pixels /\ PlaneSize >= low_min_pixels
        IN /\ \A p \in Cells : before_dilation[p] <=> (passes /\ p \in MiddlePlane)
           /\ (\A p \in BlockCells : At(signal_mask)[p]) <=> passes
           /\ PlaneSize < low_min_pixels => \A p \in Cells : ~At(signal_mask)[p]

\* a run with minima as in the scenario and a single-voxel exceedance, which
\* ends with an empty mask
C17_Witness ==
    /\ Dilation
    /\ Scenario3
    /\ AsInScenario3
    /\ \E p \in Cells : cube[p] = Mid
    /\ \A p \in Cells : ~At(signal_mask)[p]

\* ------------------------------------------------------------------ C14
\* a 1-D run on a spectrum of NaN only, or whose high mask is empty when the
\* expansion starts
NoSignal1 ==
    /\ mode = "1d"
    /\ \/ \A i \in Chan1 : spec_noise[i].nan
       \/ pc \in {"while", "done"} /\ Sum1(mask_spiked) = 0

\* a 3-D run on a cube of NaN only, or in which nd.label found no region
NoSignal3 ==
    /\ mode = "3d"
    /\ \/ \A p \in Cells : cube[p].nan
       \/ pc = "count" /\ num_labels = 0
       \/ pc \in {"filter", "dilate", "done"} /\ Len(num_pixels_in_low_snr_mask) = 0

\* C14: degenerate data never stops a run: on a field of NaN only, on a field
\* in which labelling finds no low-mask region, and in the 1-D procedure with
\* an empty high mask, every cell runs (a next step exists until the run is
\* done), no loop body is entered, and the mask is false everywhere up to and
\* including the final mask.
C14_NoSignalNoError ==
    /\ NoSignal1 =>
          /\ pc # "done" => ENABLED Next
          /\ pc \in {"spikes", "expand", "while", "done"} => \A i \in Chan1 : mask[i] = 0
          /\ pc = "while" => n_chan = Sum1(mask)
    /\ NoSignal3 =>
          /\ pc # "done" => ENABLED Next
          /\ pc \in {"filter", "dilate", "done"} => \A p \in Cells : ~At(signal_mask)[p]
          /\ pc = "filter" => num = Len(num_pixels_in_high_snr_mask)

\* a finished run on a cube of NaN only
C14_Witness ==
    /\ Dilation
    /\ NoSignal3
    /\ \A p \in Cells : cube[p].nan
    /\ \A p \in Cells : ~At(signal_mask)[p]

\* ------------------------------------------------------------------ C15
\* every sample of the field is the same number
Constant1 == mode = "1d" /\ \A i \in Chan1 : spec_noise[i] = spec_noise[0] /\ ~spec_noise[i].nan
Constant3 ==
    /\ mode = "3d"
    /\ \A p \in Cells : cube[p] = cube[<<0, 0, 0>>] /\ ~cube[p].nan

\* C15: on a constant field of any sign, zero included, the two-pass noise
\* estimate, the thresholds, spike suppression, expansion or region filter and
\* the dilation all run (a next step exists until the run is done) and every
\* mask, the final one included, is entirely false.
C15_ConstantFieldNoSignal ==
    /\ Constant1 =>
          /\ pc # "done" => ENABLED NextNoise
          /\ pc \in {"spikes", "expand", "while", "done"} =>
                \A i \in Chan1 : mask[i] = 0 /\ low_mask[i] = 0
    /\ Constant3 =>
          /\ pc # "done" => ENABLED NextNoise
          /\ pc \in {"spikes", "label", "count"} =>
                \A p \in Cells : ~At(low_snr_mask)[p] /\ ~At(high_snr_mask)[p]
          /\ pc \in {"filter", "dilate", "done"} => \A p \in Cells : ~At(signal_mask)[p]

\* a finished 3-D run on a positive constant cube: the second pass had no
\* sample left and the noise map is NaN
C15_Witness ==
    /\ Dilation
    /\ Constant3
    /\ cube[<<0, 0, 0>>].v > 0
    /\ refit_sample = {}
    /\ \A xy \in Cols : mad_std_map[xy].nan
    /\ \A p \in Cells : ~At(signal_mask)[p]

\* ------------------------------------------------------------------ C16
\* the noise estimate has been computed from the data
Refitted == first_pass # None

\* the value x is a number below 3 * s / not above 3 * s in magnitude
Below3(x, s) == (~x.nan) /\ (~s.nan) /\ x.v < 3 * s.v
Within3Sigma(x, s) == (~x.nan) /\ (~s.nan) /\ x.v <= 3 * s.v /\ 0 - x.v <= 3 * s.v

\* the estimate is the one of the first pass refit once over the sample S
RefitOnce1(S) ==
    /\ first_pass = MadStd(spec_noise, Chan1)
    /\ refit_sample = S
    /\ rms_spec = MadStd(spec_noise, S)
RefitOnce3(keep) ==
    /\ first_pass = MadStdMap(cube, [p \in Cells |-> TRUE])
    /\ refit_sample = {p \in Cells : keep[p]}
    /\ mad_std_map = MadStdMap(cube, keep)

\* C16 as stated: the estimate is refit once, over exactly the samples whose
\* magnitude does not exceed 3 times the first-pass estimate.
C16_ClipsMagnitude ==
    /\ (Refitted /\ mode = "1d") =>
          RefitOnce1({i \in Chan1 : Within3Sigma(spec_noise[i], first_pass)})
    /\ (Refitted /\ mode = "3d") =>
          RefitOnce3([p \in Cells |-> Within3Sigma(cube[p], first_pass[<<p[2], p[3]>>])])

\* C16, amended: the estimate is refit once, over exactly the samples whose
\* value is below 3 times the first-pass estimate: a sample at or above
\* +3 sigma_1 is left out, a sample below -3 sigma_1 is used.
C16_ClipsFromAbove ==
    /\ (Refitted /\ mode = "1d") =>
          RefitOnce1({i \in Chan1 : Below3(spec_noise[i], first_pass)})
    /\ (Refitted /\ mode = "3d") =>
          RefitOnce3([p \in Cells |-> Below3(cube[p], first_pass[<<p[2], p[3]>>])])

\* a spectrum with a first-pass estimate above zero, a sample above
\* +3 sigma_1, which the refit left out, and one below -3 sigma_1, which it used
C16_Witness ==
    /\ Refitted
    /\ mode = "1d"
    /\ ~first_pass.nan
    /\ first_pass.v > 0
    /\ \E i \in Chan1 : spec_noise[i].v > 3 * first_pass.v /\ i \notin refit_sample
    /\ \E i \in Chan1 : spec_noise[i].v < 0 - 3 * first_pass.v /\ i \in refit_sample

\* ------------------------------------------------------------------ C18
\* the maximal run of set channels of m around channel i (empty if i is not set);
\* channels are contiguous as array neighbours, the two ends are not
RunAround(m, i) ==
    {j \in DOMAIN m : \A k \in DOMAIN m : (k >= i \/ k >= j) /\ (k <= i \/ k <= j) => m[k] = 1}

\* the channels of the runs of the low mask that hold a channel of the high mask
RunsWithHigh(high, low) ==
    {j \in DOMAIN low : \E i \in DOMAIN low : high[i] = 1 /\ j \in RunAround(low, i)}

\* the expansion loop has ended
LoopEnded == mode = "1d" /\ pc = "while" /\ n_chan = Sum1(mask)

\* C18: when the expansion loop of the 1-D procedure ends, and before the
\* n_iter dilation, the mask is set on exactly the channels of those maximal
\* contiguous runs of the spike-suppressed low mask that hold at least one
\* channel of the spike-suppressed high mask; the other runs give no channel.
C18_ExpandsIntoLowRuns ==
    /\ LoopEnded => {j \in Chan1 : mask[j] = 1} = RunsWithHigh(mask_spiked, low_mask)
    /\ Done1 => {j \in Chan1 : mask_expanded[j] = 1} = RunsWithHigh(mask_spiked, low_mask)

\* a finished run in which the loop added a channel to the high mask and left
\* a channel of another run of the low mask out
C18_Witness ==
    /\ Done1
    /\ \E j \in Chan1 : mask_spiked[j] = 0 /\ mask_expanded[j] = 1
    /\ \E k \in Chan1 : low_mask[k] = 1 /\ mask_expanded[k] = 0

\* ------------------------------------------------------------------ C19
\* the channel rms of the line-ratio notebook has been computed
RmsComputed == pc \in {"significant", "ratio", "statistics", "end"}

\* the noise map of a cube by the recipe of the mask cell: the second pass
\* leaves out the samples not below 3 times the cube's own first pass
OwnTwoPass(a) == MadStdMap(a, [p \in Cells |-> Below3(a[p], FirstPassMap(a)[<<p[2], p[3]>>])])

\* C19: in the line-ratio notebook the channel rms of each of the two cubes is
\* the two-pass estimate of that cube: the second pass of 13CO, as that of
\* 12CO, leaves out the samples not below 3 times the cube's own first pass.
C19_SameRecipeForBothCubes ==
    RmsComputed =>
        /\ mad_std_map_12co = OwnTwoPass(cube)
        /\ mad_std_map_13co = OwnTwoPass(cube_13co)

\* ------------------------------------------------------------------ C20
\* the statistics of the ratio have been taken
StatisticsTaken == pc = "end"

\* C20: the histogram, median and percentiles of the ratio are taken only over
\* pixels with snr_12co > 3 and snr_13co > 3.
C20_OnlySignificantPixels == StatisticsTaken => stat_sample \subseteq id_sig

\* ------------------------------------------------------------------ C21
\* channel i of the 1-D mask m1 is set exactly when channels a, i and b of m0 are
EdgeKept1(m1, m0, a, i, b) == m1[i] = 1 <=> (m0[a] = 1 /\ m0[i] = 1 /\ m0[b] = 1)
\* the same on every line of sight of a 3-D mask
EdgeKept3(m1, m0, a, i, b) ==
    \A xy \in Cols :
        m1[<<i, xy[1], xy[2]>>] <=>
            (m0[<<a, xy[1], xy[2]>>] /\ m0[<<i, xy[1], xy[2]>>] /\ m0[<<b, xy[1], xy[2]>>])

\* C21: the neighbours of spike suppression wrap around the spectral axis: of
\* N channels, channel 0 is kept exactly when channels N-1, 0 and 1 are all
\* set before suppression, and channel N-1 exactly when channels N-2, N-1 and
\* 0 are, in the high and the low mask, in 1-D and in 3-D.
C21_EdgeChannelsWrapAround ==
    /\ Spiked1 =>
          /\ EdgeKept1(mask, thr_mask, NChan - 1, 0, 1)
          /\ EdgeKept1(mask, thr_mask, NChan - 2, NChan - 1, 0)
          /\ EdgeKept1(low_mask, thr_low_mask, NChan - 1, 0, 1)
          /\ EdgeKept1(low_mask, thr_low_mask, NChan - 2, NChan - 1, 0)
    /\ Spiked3 =>
          /\ EdgeKept3(At(high_snr_mask), At(ThrHigh), NC - 1, 0, 1)
          /\ EdgeKept3(At(high_snr_mask), At(ThrHigh), NC - 2, NC - 1, 0)
          /\ EdgeKept3(At(low_snr_mask), At(ThrLow), NC - 1, 0, 1)
          /\ EdgeKept3(At(low_snr_mask), At(ThrLow), NC - 2, NC - 1, 0)

\* channel 0 was kept because the last channel is set, and the last channel,
\* set as well, was removed because the one before it is not
C21_Witness ==
    /\ Spiked1
    /\ mask[0] = 1
    /\ thr_mask[NChan - 1] = 1
    /\ mask[NChan - 1] = 0
    /\ thr_mask[NChan - 2] = 0

\* ------------------------------------------------------------------ C22
\* the expansion loop is running or has run
InLoop == mode = "1d" /\ pc \in {"while", "done"}

\* the spike-suppressed masks for the S/N multipliers lo and hi
SpikedAt(k) == Array(RemoveSpikes1(Array(Threshold1(spec_noise, k, rms_spec))))

\* C22: the expansion loop of the 1-D procedure has no cap on its turns and
\* ends all the same: it never takes more turns than the number of channels of
\* the spike-suppressed low mask, minus that of the spike-suppressed high mask,
\* plus one; for the multipliers of the notebook in every run, and for every
\* other pair 0 < low < high of the grid on every spectrum.
C22_ExpansionTurnsBounded ==
    /\ InLoop => n_turns <= Sum1(low_mask) - Sum1(mask_spiked) + 1
    /\ (mode = "1d" /\ pc = "threshold") =>
          \A g \in Grid1 :
              ExpandTurns(0, SpikedAt(g[2]), SpikedAt(g[1]))
                  <= Sum1(SpikedAt(g[1])) - Sum1(SpikedAt(g[2])) + 1

\* a finished run whose loop took three turns or more, as many as the bound allows
C22_Witness ==
    /\ Done1
    /\ n_turns >= 3
    /\ n_turns = Sum1(low_mask) - Sum1(mask_spiked) + 1

\* ------------------------------------------------------------------ C23
\* the loop test is false: the loop is not entered, or is left
LoopExit == mode = "1d" /\ pc = "while" /\ n_chan = Sum1(mask)

\* C23: whenever the test of the expansion loop lets the run leave (or never
\* enter) the loop, one more dilation into the low mask changes no channel of
\* the mask: equal counts mean equal masks; and the mask kept for the final
\* dilation is that fixed point.
C23_EqualCountMeansFixedPoint ==
    /\ LoopExit => \A i \in Chan1 : DilateInto(mask, low_mask)[i] = mask[i]
    /\ Done1 => \A i \in Chan1 : DilateInto(mask_expanded, low_mask)[i] = mask_expanded[i]

\* the loop is left after turns that added channels, with channels of the
\* low mask that the mask did not reach
C23_Witness ==
    /\ LoopExit
    /\ n_turns >= 2
    /\ \E i \in Chan1 : mask[i] = 1 /\ mask_spiked[i] = 0
    /\ \E i \in Chan1 : low_mask[i] = 1 /\ mask[i] = 0

\* ------------------------------------------------------------------ C24
\* the run is at the test of the expansion loop
AtLoopTest == mode = "1d" /\ pc = "while"

\* the mask holds the spike-suppressed high mask and lies in the low mask
BetweenHighAndLow(m) == Within1(mask_spiked, m) /\ Within1(m, low_mask)

\* C24: when the expansion loop starts and after each of its turns the
\* spike-suppressed high mask lies in the mask and the mask in the
\* spike-suppressed low mask, and a turn never clears a channel of the mask.
C24_LoopInvariant ==
    [][AtLoopTest =>
          /\ BetweenHighAndLow(mask)
          /\ pc' = "while" => (BetweenHighAndLow(mask') /\ Within1(mask, mask'))]_vars

\* in the loop, after a turn that added a channel and before another turn,
\* with the mask strictly between the two masks
C24_Witness ==
    /\ AtLoopTest
    /\ n_turns >= 1
    /\ n_chan # Sum1(mask)
    /\ \E i \in Chan1 : mask[i] = 1 /\ mask_spiked[i] = 0
    /\ \E i \in Chan1 : low_mask[i] = 1 /\ mask[i] = 0

\* ------------------------------------------------------------------ C25
\* the noise estimate is not negative and the low multiplier is below the high one
NoiseNotNegative1 == mode = "1d" /\ (rms_spec.nan \/ rms_spec.v >= 0) /\ low_tresh < high_tresh
NoiseNotNegative3 ==
    /\ mode = "3d"
    /\ \A xy \in Cols : mad_std_map[xy].nan \/ mad_std_map[xy].v >= 0
    /\ snr[1] < snr[2]

\* the cells of region i of the low mask
RegionCells(i) == {p \in Cells : low_snr_mask_labels[p] = i}

\* C25: with a noise estimate that is not negative and low < high, the high
\* mask lies in the low mask before and after spike suppression; so when the
\* regions of the low mask are counted every cell of the high mask lies in a
\* region, the low count of a region is its size, at least 1, and its high
\* count is at most its low count.
C25_HighInLow ==
    /\ NoiseNotNegative1 =>
          (pc \in {"spikes", "expand"} => Within1(mask, low_mask))
    /\ NoiseNotNegative3 =>
          /\ pc \in {"spikes", "label", "count"} =>
                Within3(At(high_snr_mask), At(low_snr_mask))
          /\ pc \in {"filter", "dilate", "done"} =>
                /\ Within3(At(high_snr_mask), low_before_filter)
                /\ \A p \in Cells :
                      At(high_snr_mask)[p] =>
                          low_snr_mask_labels[p] \in 1 .. Len(num_pixels_in_low_snr_mask)
                /\ \A i \in 1 .. Len(num_pixels_in_low_snr_mask) :
                      /\ num_pixels_in_low_snr_mask[i] = Cardinality(RegionCells(i))
                      /\ num_pixels_in_low_snr_mask[i] >= 1
                      /\ num_pixels_in_high_snr_mask[i] <= num_pixels_in_low_snr_mask[i]

\* the counts of two regions are taken: one without a cell of the high mask,
\* one with some but fewer than its size
C25_Witness ==
    /\ mode = "3d"
    /\ pc = "filter"
    /\ \E i \in 1 .. Len(num_pixels_in_low_snr_mask) : num_pixels_in_high_snr_mask[i] = 0
    /\ \E i \in 1 .. Len(num_pixels_in_low_snr_mask) :
          /\ num_pixels_in_high_snr_mask[i] > 0
          /\ num_pixels_in_high_snr_mask[i] < num_pixels_in_low_snr_mask[i]

\* ------------------------------------------------------------------ C26
\* the run is in the for loop of the region filter
InFilterLoop == mode = "3d" /\ pc = "filter"

\* entry i (from 0) of the two count arrays, which the model keeps at index i + 1
HighCountAt(i) == num_pixels_in_high_snr_mask[i + 1]
LowCountAt(i) == num_pixels_in_low_snr_mask[i + 1]

\* the cells a step clears in the array signal_mask names
ClearedNow == {p \in Cells : At(signal_mask)[p] /\ ~(heap'[signal_mask'])[p]}
\* the cells a step changes in it
TouchedNow == {p \in Cells : At(signal_mask)[p] # (heap'[signal_mask'])[p]}

\* C26: in the filter loop, entry i (from 0) of either count array is the
\* count of the region labelled i + 1; the loop takes the labels 1..num_labels
\* in order, one per iteration, and ends after the last; iteration i clears
\* the cells labelled i + 1, all of them, if the counts of that region fail
\* the test, and changes no other cell: not those of another region and not
\* the background, label 0.
C26_LabelIndexAlignment ==
    [][InFilterLoop =>
          /\ Len(num_pixels_in_high_snr_mask) = num_labels
          /\ Len(num_pixels_in_low_snr_mask) = num_labels
          /\ \A i \in 0 .. (num_labels - 1) :
                /\ HighCountAt(i) =
                      Cardinality({p \in RegionCells(i + 1) : At(high_snr_mask)[p]})
                /\ LowCountAt(i) =
                      Cardinality({p \in RegionCells(i + 1) : low_before_filter[p]})
          /\ num \in 0 .. num_labels
          /\ num = num_labels => pc' = "dilate"
          /\ num < num_labels =>
                /\ pc' = "filter"
                /\ num' = num + 1
                /\ TouchedNow = ClearedNow
                /\ ClearedNow =
                      IF HighCountAt(num) >= high_min_pixels /\ LowCountAt(num) >= low_min_pixels
                      THEN {}
                      ELSE RegionCells(num + 1)]_vars

\* in the loop, after two iterations: the region labelled 1 was cleared, the
\* region labelled 2 was kept, and a third is still to come
C26_Witness ==
    /\ InFilterLoop
    /\ num = 2
    /\ num_labels >= 3
    /\ \A p \in RegionCells(1) : ~At(signal_mask)[p]
    /\ \A p \in RegionCells(2) : At(signal_mask)[p]

\* ------------------------------------------------------------------ C27
\* the final noise estimate has been computed and the thresholds applied
Thresholded1 == mode = "1d" /\ pc \in {"spikes", "expand", "while", "done"}
Thresholded3 == mode = "3d" /\ pc \in {"spikes", "label", "count", "filter", "dilate", "done"}

\* C27: where the final noise estimate is exactly 0 the low mask, the high
\* mask and the resulting mask are false in every channel, whatever the
\* samples: in 1-D for the spectrum, in 3-D per line of sight.
C27_ZeroSigmaMaskFalse ==
    /\ (Thresholded1 /\ rms_spec = Num(0)) =>
          \A i \in Chan1 : thr_mask[i] = 0 /\ thr_low_mask[i] = 0 /\ mask[i] = 0
    /\ Thresholded3 =>
          \A p \in Cells :
              mad_std_map[<<p[2], p[3]>>] = Num(0) =>
                  /\ ~At(ThrLow)[p]
                  /\ ~At(ThrHigh)[p]
                  /\ pc = "done" => ~At(signal_mask)[p]

\* ------------------------------------------------------------------ C28
\* C28: the sum-of-three form of the 1-D procedure and the conjunction form of
\* the 3-D procedure are the same function of a mask: the masks the 1-D
\* procedure gets after spike suppression are what the conjunction form makes
\* of its thresholded masks, and the masks the 3-D procedure gets are what the
\* sum-of-three form, taken along the spectral axis, makes of its own.
C28_SpikeFormsAgree ==
    /\ Spiked1 =>
          /\ \A i \in Chan1 : mask[i] = RemoveSpikes1Logical(thr_mask)[i]
          /\ \A i \in Chan1 : low_mask[i] = RemoveSpikes1Logical(thr_low_mask)[i]
    /\ Spiked3 =>
          /\ \A p \in Cells : At(high_snr_mask)[p] = RemoveSpikes3Arithmetic(At(ThrHigh))[p]
          /\ \A p \in Cells : At(low_snr_mask)[p] = RemoveSpikes3Arithmetic(At(ThrLow))[p]

\* a 1-D mask with a channel clear between two set ones and a run of three:
\* suppression kept the middle of the run
C28_Witness ==
    /\ Spiked1
    /\ \E i \in Chan1 :
          thr_mask[i] = 0 /\ Roll1(thr_mask, 1)[i] = 1 /\ Roll1(thr_mask, -1)[i] = 1
    /\ \E i \in Chan1 : mask[i] = 1

====
